---- MODULE Spec2Model ----
\* Model of onlykey_agent/client.py: the Client session (connect, get_public_key,
\* sign_ssh_challenge, disconnect) over an external HID transport, and the pure
\* codecs it uses (_parse_ssh_blob, get_button, the raw key classification).
\*
\* Bytes are integers 0..255, byte strings are sequences of bytes.  A Python
\* index i is the TLA+ index i+1.

EXTENDS Integers, Sequences, FiniteSets, TLC

\* ---------------------------------------------------------------------------
\* Bounds of the model
\* ---------------------------------------------------------------------------

\* number of messages left in the transport by a previous session
MaxStale == 2
\* number of buffers the device delivers during one session
MaxDeliver == 2
\* number of operations (get_public_key / sign_ssh_challenge) in one session
MaxOps == 2
\* largest byte value used to fill synthetic buffers and fields
MaxFill == 1
\* length of the identity strings that are enumerated in full
MaxIdLen == 5
\* length of the labels whose payloads are computed
MaxLabelLen == 3
\* with statements that one Client object is used in
MaxSessions == 2

\* ---------------------------------------------------------------------------
\* Program constants
\* ---------------------------------------------------------------------------

\* read_bytes(64, ...): size of a full transport report
ReportLen == 64
\* for _ in xrange(2): read attempts of get_public_key
PubkeyAttempts == 2
\* for _ in xrange(10): read attempts of sign_ssh_challenge
SignAttempts == 10
\* if len(result) >= 60: shortest response accepted as a signature
MinSigLen == 60
\* slot_id=132 of both requests
KeySlot == 132
\* ok_pubkey[34:63]: the padding window of the key classification
PadFrom == 34
PadTo == 63
\* ok_pubkey[0:32]: length of a raw Ed25519 verifying key
Ed25519KeyLen == 32
\* assert len(d) == 32: length of a SHA-256 digest
DigestLen == 32

\* ---------------------------------------------------------------------------
\* State
\* ---------------------------------------------------------------------------

VARIABLES
    curve,      \* self.curve
    pc,         \* position of the caller in the session
    rxq,        \* reports buffered in the transport, oldest first
    sent,       \* messages sent to the device in this session
    reads,      \* reads issued by the operation in progress (or the last one)
    op,         \* the operation in progress (or the last one)
    result,     \* outcome of the last finished operation
    shown,      \* confirmation codes printed in this session
    acks,       \* acknowledgments read by raw_input()
    signLog,    \* (label, blob, payload, code) of every sign request sent
    closeCalls, \* calls of self.ok.close()
    ops,        \* operations started in this session
    delivered,  \* reports delivered by the device in this session
    arg,        \* input of the pure function under check
    ret         \* its output

vars == <<curve, pc, rxq, sent, reads, op, result, shown, acks, signLog,
          closeCalls, ops, delivered, arg, ret>>

\* ---------------------------------------------------------------------------
\* Byte-string helpers (Python semantics)
\* ---------------------------------------------------------------------------

Min(a, b) == IF a < b THEN a ELSE b

\* s[a:b] for 0 <= a <= b
Slice(s, a, b) == SubSeq(s, a + 1, Min(b, Len(s)))

\* set(s)
SetOf(s) == { s[i] : i \in 1..Len(s) }

\* a string of n bytes, all equal to v
Fill(n, v) == [i \in 1..n |-> v]

\* s with the byte at Python index p replaced by v (s itself when p is outside)
Poke(s, p, v) == [i \in 1..Len(s) |-> IF i = p + 1 THEN v ELSE s[i]]

\* hex digits (values 0..15) of a byte string: binascii.hexlify / hexdigest
HexEncode(s) ==
    [i \in 1..(2 * Len(s)) |->
        IF i % 2 = 1 THEN s[(i + 1) \div 2] \div 16 ELSE s[i \div 2] % 16]

\* data.decode("hex"): pairs of hex digits back to bytes
HexDecode(h) ==
    [i \in 1..(Len(h) \div 2) |-> 16 * h[2 * i - 1] + h[2 * i]]

\* sum over j in lo..hi of a term mixing byte j of s into digest position i
RECURSIVE SumMix(_, _, _, _)
SumMix(s, i, lo, hi) ==
    IF lo > hi THEN 0
    ELSE IF lo = hi THEN ((s[lo] + 1) * (i * i + 3 * lo + 1)) % 256
    ELSE LET mid == (lo + hi) \div 2
         IN  (SumMix(s, i, lo, mid) + SumMix(s, i, mid + 1, hi)) % 256

\* hashlib.sha256: a fixed function from byte strings to 32 bytes.  SHA-256
\* itself is abstracted by a small mixing function; what the program relies on
\* is that the digest depends on the input only and is 32 bytes long.
Sha256(s) ==
    [i \in 1..DigestLen |-> (SumMix(s, i, 1, Len(s)) + 7 * i + 13 * Len(s)) % 256]

\* h.hexdigest()
Sha256Hex(s) == HexEncode(Sha256(s))

\* ---------------------------------------------------------------------------
\* Request payloads and the confirmation code
\* ---------------------------------------------------------------------------

\* formats.CURVE_NIST256 and formats.CURVE_ED25519
CURVE_NIST256 == "nist256p1"
CURVE_ED25519 == "ed25519"
Curves == {CURVE_NIST256, CURVE_ED25519}

\* GetKeyPayload with the two indicators exchanged
GetKeyPayload_Exchanged(cv, label) ==
    HexDecode((IF cv = CURVE_NIST256 THEN <<0, 1>> ELSE <<0, 2>>)
              \o Sha256Hex(label))

\* get_public_key: '02' + hexdigest for NIST256, '01' + hexdigest otherwise,
\* then data.decode("hex")
GetKeyPayload(cv, label) ==
    HexDecode((IF cv = CURVE_NIST256 THEN <<0, 2>> ELSE <<0, 1>>)
              \o Sha256Hex(label))

\* SignPayload with the curve indicator of the get-key payload in front
SignPayload_WithCurve(label, blob) ==
    (IF curve = CURVE_NIST256 THEN <<2>> ELSE <<1>>) \o blob
    \o HexDecode(Sha256Hex(label))

\* sign_ssh_challenge: test_payload = blob + h1.hexdigest().decode("hex")
SignPayload(label, blob) == blob \o HexDecode(Sha256Hex(label))

\* sign_ssh_challenge: d = sha256(test_payload).digest()
ChallengeDigest(payload) == Sha256(payload)

\* get_button with the comparison including 6
get_button_UpTo6(ibyte) == IF ibyte <= 6 THEN 1 ELSE (ibyte % 5) + 1

\* get_button(byte)
get_button(ibyte) == IF ibyte < 6 THEN 1 ELSE (ibyte % 5) + 1

\* b1, b2, b3 = get_button(d[0]), get_button(d[15]), get_button(d[31])
ConfirmationCode(d) == <<get_button(d[1]), get_button(d[16]), get_button(d[32])>>

\* ---------------------------------------------------------------------------
\* Operation results
\* ---------------------------------------------------------------------------

NoResult ==
    [kind |-> "none", variant |-> "", data |-> <<>>, label |-> <<>>, err |-> ""]

Failure(e) ==
    [kind |-> "error", variant |-> "", data |-> <<>>, label |-> <<>>, err |-> e]

\* formats.export_public_key(vk=vk, label=label): the key line of the variant,
\* the raw key material and the label as comment
export_public_key(variant, key, label) ==
    [kind |-> "key", variant |-> variant, data |-> key, label |-> label, err |-> ""]

\* the signature buffer returned by sign_ssh_challenge
Signature(buf) ==
    [kind |-> "sig", variant |-> "", data |-> buf, label |-> <<>>, err |-> ""]

\* ---------------------------------------------------------------------------
\* Raw device buffer classification (get_public_key, after the read loop)
\* ---------------------------------------------------------------------------

\* IsEd25519Padding with the window starting one byte early
IsEd25519Padding_From33(ok_pubkey) ==
    Cardinality(SetOf(Slice(ok_pubkey, PadFrom - 1, PadTo))) = 1

\* if len(set(ok_pubkey[34:63])) == 1
IsEd25519Padding(ok_pubkey) ==
    Cardinality(SetOf(Slice(ok_pubkey, PadFrom, PadTo))) = 1

\* the decoder the buffer is handed to, and the bytes handed to it
Classify(ok_pubkey) ==
    IF IsEd25519Padding(ok_pubkey)
    THEN [variant |-> "ed25519", key |-> Slice(ok_pubkey, 0, Ed25519KeyLen)]
    ELSE [variant |-> "ecdsa-nist256", key |-> Slice(ok_pubkey, 0, ReportLen)]

\* ed25519.VerifyingKey(key) takes exactly 32 bytes;
\* ecdsa.VerifyingKey.from_string(key, curve=NIST256p) takes exactly 64 bytes
\* that are a point of the curve (onCurve)
KeyAccepted(c, onCurve) ==
    IF c.variant = "ed25519" THEN Len(c.key) = Ed25519KeyLen
    ELSE Len(c.key) = ReportLen /\ onCurve

\* lines 77..86 of get_public_key
DecodePubkey(ok_pubkey, label, onCurve) ==
    LET c == Classify(ok_pubkey) IN
    IF KeyAccepted(c, onCurve)
    THEN export_public_key(c.variant, c.key, label)
    ELSE Failure("KeyDecodeError")

\* PadSignature without the padding loop
PadSignature_NoPadding(buf) == buf

\* sign_ssh_challenge: while len(result) < 64: result.append(0)
PadSignature(buf) ==
    buf \o Fill(IF Len(buf) < ReportLen THEN ReportLen - Len(buf) ELSE 0, 0)

\* ---------------------------------------------------------------------------
\* SSH wire framing and the SSH authentication request blob
\* ---------------------------------------------------------------------------

\* struct '>L': the 4-byte big-endian unsigned length
BE32(n) ==
    <<(n \div 16777216) % 256, (n \div 65536) % 256, (n \div 256) % 256, n % 256>>

FromBE32(b) == 16777216 * b[1] + 65536 * b[2] + 256 * b[3] + b[4]

\* util.read_frame(i) on the stream (data, pos): a 4-byte big-endian length,
\* then exactly that many bytes; fails when either runs past the end
read_frame(data, pos) ==
    LET hdr == Slice(data, pos, pos + 4) IN
    IF Len(hdr) < 4
    THEN [ok |-> FALSE, val |-> <<>>, pos |-> Len(data)]
    ELSE LET size == FromBE32(hdr)
             body == Slice(data, pos + 4, pos + 4 + size)
         IN  IF Len(body) < size
             THEN [ok |-> FALSE, val |-> <<>>, pos |-> Len(data)]
             ELSE [ok |-> TRUE, val |-> body, pos |-> pos + 4 + size]

\* i.read(1): skips one byte, or none at the end of the stream
read1(data, pos) == Min(pos + 1, Len(data))

\* "ssh-ed25519", "ecdsa-sha2-nistp256", "nistp256"
SSH_ED25519_KEY_TYPE == <<115, 115, 104, 45, 101, 100, 50, 53, 53, 49, 57>>
SSH_NIST256_KEY_TYPE ==
    <<101, 99, 100, 115, 97, 45, 115, 104, 97, 50, 45, 110, 105, 115, 116, 112, 50, 53, 54>>
SSH_NIST256_CURVE_NAME == <<110, 105, 115, 116, 112, 50, 53, 54>>

\* the SSH fingerprint of a serialized key: a 16-byte digest of the blob,
\* abstracted like Sha256 by a function of the blob only
fingerprint(blob) ==
    [i \in 1..16 |->
        IF blob = <<>> THEN i
        ELSE (blob[((7 * i) % Len(blob)) + 1] + 31 * i + Len(blob)) % 256]

NoKey == [type |-> <<>>, key |-> <<>>, fingerprint |-> <<>>]

\* formats.parse_pubkey(blob): the algorithm name frame, then the fields of
\* that algorithm (Ed25519: a 32-byte key; NIST256: the curve name and an
\* uncompressed 65-byte point), nothing after them
parse_pubkey(blob) ==
    LET t == read_frame(blob, 0)
        a == read_frame(blob, t.pos)
        b == read_frame(blob, a.pos)
        bad == [ok |-> FALSE, key |-> NoKey]
    IN  IF ~t.ok THEN bad
        ELSE IF t.val = SSH_ED25519_KEY_TYPE
        THEN IF a.ok /\ a.pos = Len(blob) /\ Len(a.val) = 32
             THEN [ok |-> TRUE,
                   key |-> [type |-> t.val, key |-> a.val,
                            fingerprint |-> fingerprint(blob)]]
             ELSE bad
        ELSE IF t.val = SSH_NIST256_KEY_TYPE
        THEN IF a.ok /\ a.val = SSH_NIST256_CURVE_NAME /\ b.ok /\ b.pos = Len(blob)
                /\ Len(b.val) = 65 /\ b.val[1] = 4
             THEN [ok |-> TRUE,
                   key |-> [type |-> t.val, key |-> Tail(b.val),
                            fingerprint |-> fingerprint(blob)]]
             ELSE bad
        ELSE bad

BlobFailure(e) ==
    [ok |-> FALSE, err |-> e, nonce |-> <<>>, user |-> <<>>, conn |-> <<>>,
     auth |-> <<>>, key_type |-> <<>>, public_key |-> NoKey]

\* FrameSkips with the second reserved byte read one frame early
FrameSkips_Early == <<0, 1, 0, 1, 0, 0>>

\* the bytes _parse_ssh_blob skips with i.read(1) before each of its six frames:
\* nonce, (1) user, conn, auth, (1) key_type, public_key
FrameSkips == <<0, 1, 0, 0, 1, 0>>

\* the frames of _parse_ssh_blob from frame k on, read in order from pos; acc
\* holds the frames read so far
RECURSIVE ReadFrames(_, _, _, _), ReadFramesFrom(_, _, _, _)
ReadFrames(data, pos, k, acc) ==
    IF k > Len(FrameSkips) THEN [ok |-> TRUE, vals |-> acc, pos |-> pos]
    ELSE LET start == IF FrameSkips[k] = 1 THEN read1(data, pos) ELSE pos
         IN  ReadFramesFrom(data, read_frame(data, start), k, acc)

ReadFramesFrom(data, f, k, acc) ==
    IF ~f.ok THEN [ok |-> FALSE, vals |-> acc, pos |-> f.pos]
    ELSE ReadFrames(data, f.pos, k + 1, Append(acc, f.val))

\* ParsedBlob without the assertion on the rest of the stream
ParsedBlob_NoTrailingCheck(data, fr, parsed) ==
    IF ~parsed.ok THEN BlobFailure("UnsupportedKeyEncoding")
    ELSE [ok |-> TRUE, err |-> "", nonce |-> fr.vals[1], user |-> fr.vals[2],
          conn |-> fr.vals[3], auth |-> fr.vals[4], key_type |-> fr.vals[5],
          public_key |-> parsed.key]

\* _parse_ssh_blob after parse_pubkey: assert not i.read(), return res
ParsedBlob(data, fr, parsed) ==
    IF ~parsed.ok THEN BlobFailure("UnsupportedKeyEncoding")
    ELSE IF fr.pos # Len(data) THEN BlobFailure("MalformedBlob")
    ELSE [ok |-> TRUE, err |-> "", nonce |-> fr.vals[1], user |-> fr.vals[2],
          conn |-> fr.vals[3], auth |-> fr.vals[4], key_type |-> fr.vals[5],
          public_key |-> parsed.key]

\* the rest of _parse_ssh_blob once the frames are read: parse_pubkey on the
\* last frame, then assert not i.read()
ParseFrames(data, fr) ==
    IF ~fr.ok THEN BlobFailure("MalformedBlob")
    ELSE ParsedBlob(data, fr, parse_pubkey(fr.vals[6]))

\* _parse_ssh_blob(data)
parse_ssh_blob(data) == ParseFrames(data, ReadFrames(data, 0, 1, <<>>))

\* ---------------------------------------------------------------------------
\* Inputs of the session model
\* ---------------------------------------------------------------------------

\* frame encoding of a byte string (SSH wire framing)
Frame(s) == BE32(Len(s)) \o s

\* a serialized Ed25519 public key whose 32 key bytes are all v
Ed25519Blob(v) == Frame(SSH_ED25519_KEY_TYPE) \o Frame(Fill(32, v))

\* a serialized NIST256 public key whose coordinates are all v
Nist256Blob(v) ==
    Frame(SSH_NIST256_KEY_TYPE) \o Frame(SSH_NIST256_CURVE_NAME)
    \o Frame(<<4>> \o Fill(64, v))

\* the SSH authentication request blob of the given fields and reserved bytes
EncodeRequest(r, m1, m2) ==
    Frame(r.nonce) \o <<m1>> \o Frame(r.user) \o Frame(r.conn) \o Frame(r.auth)
    \o <<m2>> \o Frame(r.key_type) \o Frame(r.public_key)

Request(n, u, c, a, k, p) ==
    [nonce |-> n, user |-> u, conn |-> c, auth |-> a, key_type |-> k,
     public_key |-> p]

\* labels passed to get_public_key and sign_ssh_challenge: "t", "t@h"
Labels == {<<116>>, <<116, 64, 104>>}

GoodBlob == EncodeRequest(Request(<<7>>, <<117>>, <<>>, <<112>>,
                                  SSH_ED25519_KEY_TYPE, Ed25519Blob(1)), 50, 1)

\* blobs passed to sign_ssh_challenge: a well-formed one, and the same with a
\* trailing byte
SessionBlobs == {GoodBlob, GoodBlob \o <<0>>}

\* buffers the transport returns in the session model: a full report, a short
\* report with a uniform tail, a short report long enough for a signature
SessionBuffers == {Fill(ReportLen, 0), Fill(35, 0), Fill(MinSigLen, 1)}

\* buffers a previous session may have left in the transport
StaleBuffers == {Fill(ReportLen, 0)}

RECURSIVE SeqsUpTo(_, _)
SeqsUpTo(S, n) ==
    IF n = 0 THEN {<<>>}
    ELSE LET shorter == SeqsUpTo(S, n - 1)
         IN  shorter \cup {Append(q, x) : q \in shorter, x \in S}

\* ---------------------------------------------------------------------------
\* Initial state and the transport
\* ---------------------------------------------------------------------------

\* a report in the transport: req = 0 when it was there before the session,
\* otherwise the number of the request the device answers with it
Report(b, r) == [data |-> b, req |-> r]

\* a read that timed out returns an empty buffer
EmptyRead == [data |-> <<>>, req |-> -1]

NoOp == [name |-> "none", label |-> <<>>, blob |-> <<>>]

\* Client.__init__: OnlyKey() opens the device, the caller is about to enter
Init ==
    /\ curve \in Curves
    /\ pc = "constructed"
    /\ rxq \in SeqsUpTo({Report(b, 0) : b \in StaleBuffers}, MaxStale)
    /\ sent = <<>>
    /\ reads = <<>>
    /\ op = NoOp
    /\ result = NoResult
    /\ shown = <<>>
    /\ acks = 0
    /\ signLog = {}
    /\ closeCalls = 0
    /\ ops = 0
    /\ delivered = 0
    /\ arg = <<>>
    /\ ret = <<>>

\* self.ok.read_string / self.ok.read_bytes: the oldest buffered report, or an
\* empty buffer after the timeout
ReadResult == IF rxq = <<>> THEN EmptyRead ELSE Head(rxq)
AfterRead == IF rxq = <<>> THEN rxq ELSE Tail(rxq)

\* ---------------------------------------------------------------------------
\* Session: __enter__ and __exit__
\* ---------------------------------------------------------------------------

\* empty = 'a'
EnterEmpty == <<97>>

\* while not empty: empty = self.ok.read_string(timeout_ms=50)
\* the transport after the loop, entered with the given value of empty; an
\* idle transport keeps returning empty reads
RECURSIVE EnterLoop(_, _)
EnterLoop(q, empty) ==
    IF empty # <<>> \/ q = <<>> THEN q
    ELSE EnterLoop(Tail(q), Head(q).data)

\* Client.__enter__: one read_string, then the loop, then return self
Enter ==
    /\ pc = "constructed"
    /\ rxq' = EnterLoop(AfterRead, EnterEmpty)
    /\ pc' = "ready"
    /\ UNCHANGED <<curve, sent, reads, op, result, shown, acks, signLog,
                   closeCalls, ops, delivered, arg, ret>>

\* Client.__enter__ when read_string raises: the exception leaves the with
\* statement before its body, and __exit__ is not run
EnterRaise ==
    /\ pc = "constructed"
    /\ pc' = "aborted"
    /\ result' = Failure("TransportError")
    /\ UNCHANGED <<curve, rxq, sent, reads, op, shown, acks, signLog,
                   closeCalls, ops, delivered, arg, ret>>

\* Client.__exit__: runs when the body of the with statement is left, whether
\* normally or by an exception of the last operation
Exit ==
    /\ pc = "ready"
    /\ closeCalls' = closeCalls + 1
    /\ pc' = "exited"
    /\ UNCHANGED <<curve, rxq, sent, reads, op, result, shown, acks, signLog,
                   ops, delivered, arg, ret>>

\* ---------------------------------------------------------------------------
\* get_public_key
\* ---------------------------------------------------------------------------

\* lines 57..69: the payload is computed and sent
GetPublicKeySend(label) ==
    /\ pc = "ready"
    /\ ops < MaxOps
    /\ ops' = ops + 1
    /\ op' = [name |-> "get_public_key", label |-> label, blob |-> <<>>]
    /\ sent' = Append(sent, [msg |-> "OKGETPUBKEY", slot |-> KeySlot,
                             payload |-> GetKeyPayload(curve, label)])
    /\ reads' = <<>>
    /\ result' = NoResult
    /\ pc' = "get_public_key_poll"
    /\ UNCHANGED <<curve, rxq, shown, acks, signLog, closeCalls, delivered,
                   arg, ret>>

\* the loop of get_public_key ends after this many reads, or at a full report
PubkeyLoopEnds(n, ok_pubkey) == n >= PubkeyAttempts \/ Len(ok_pubkey) = ReportLen

\* lines 70..86: one iteration of the read loop; the iteration that ends the
\* loop goes on to classify and decode the last buffer read
GetPublicKeyRead ==
    /\ pc = "get_public_key_poll"
    /\ LET r == ReadResult
           ok_pubkey == r.data
       IN  /\ reads' = Append(reads, r)
           /\ rxq' = AfterRead
           /\ IF PubkeyLoopEnds(Len(reads) + 1, ok_pubkey)
              THEN /\ \E onCurve \in BOOLEAN :
                         result' = DecodePubkey(ok_pubkey, op.label, onCurve)
                   /\ pc' = "ready"
              ELSE /\ result' = result
                   /\ pc' = pc
    /\ UNCHANGED <<curve, sent, op, shown, acks, signLog, closeCalls, ops,
                   delivered, arg, ret>>

\* read_bytes raises inside get_public_key: the exception leaves the operation
GetPublicKeyReadRaise ==
    /\ pc = "get_public_key_poll"
    /\ result' = Failure("TransportError")
    /\ pc' = "ready"
    /\ UNCHANGED <<curve, rxq, sent, reads, op, shown, acks, signLog,
                   closeCalls, ops, delivered, arg, ret>>

\* ---------------------------------------------------------------------------
\* sign_ssh_challenge
\* ---------------------------------------------------------------------------

\* sign_ssh_challenge with the blob parsed after the payload is sent
SignSend_SendFirst(label, blob) ==
    /\ pc = "ready"
    /\ ops < MaxOps
    /\ ops' = ops + 1
    /\ op' = [name |-> "sign_ssh_challenge", label |-> label, blob |-> blob]
    /\ reads' = <<>>
    /\ sent' = Append(sent, [msg |-> "OKSIGNCHALLENGE", slot |-> KeySlot,
                             payload |-> SignPayload(label, blob)])
    /\ LET msg == parse_ssh_blob(blob)
       IN  IF ~msg.ok
           THEN /\ result' = Failure(msg.err)
                /\ pc' = "ready"
           ELSE /\ result' = NoResult
                /\ pc' = "sign_show"
    /\ UNCHANGED <<curve, rxq, shown, acks, signLog, closeCalls, delivered,
                   arg, ret>>

\* lines 91..124: the blob is parsed, the payload and the code are computed
\* and the payload is sent; a blob that does not parse ends the operation at
\* line 91
SignSend(label, blob) ==
    /\ pc = "ready"
    /\ ops < MaxOps
    /\ ops' = ops + 1
    /\ op' = [name |-> "sign_ssh_challenge", label |-> label, blob |-> blob]
    /\ reads' = <<>>
    /\ LET msg == parse_ssh_blob(blob)
           test_payload == SignPayload(label, blob)
           d == ChallengeDigest(test_payload)
           code == ConfirmationCode(d)
       IN  IF ~msg.ok
           THEN /\ result' = Failure(msg.err)
                /\ pc' = "ready"
                /\ UNCHANGED <<sent, shown, signLog>>
           ELSE /\ result' = NoResult
                /\ sent' = Append(sent, [msg |-> "OKSIGNCHALLENGE", slot |-> KeySlot,
                                         payload |-> test_payload])
                /\ signLog' = signLog \cup
                       {[label |-> label, blob |-> blob, payload |-> test_payload,
                         code |-> code]}
                /\ pc' = "sign_show"
                /\ UNCHANGED shown
    /\ UNCHANGED <<curve, rxq, acks, closeCalls, delivered, arg, ret>>

\* lines 126..128: the code computed at line 121 is printed
SignShow ==
    /\ pc = "sign_show"
    /\ shown' = Append(shown, ConfirmationCode(
                     ChallengeDigest(SignPayload(op.label, op.blob))))
    /\ pc' = "sign_wait_ack"
    /\ UNCHANGED <<curve, rxq, sent, reads, op, result, acks, signLog,
                   closeCalls, ops, delivered, arg, ret>>

\* the reads start without a call of raw_input
SignAck_NoWait ==
    /\ pc = "sign_wait_ack"
    /\ pc' = "sign_poll"
    /\ UNCHANGED <<curve, rxq, sent, reads, op, result, shown, acks, signLog,
                   closeCalls, ops, delivered, arg, ret>>

\* line 129: raw_input() returns
SignAck ==
    /\ pc = "sign_wait_ack"
    /\ acks' = acks + 1
    /\ pc' = "sign_poll"
    /\ UNCHANGED <<curve, rxq, sent, reads, op, result, shown, signLog,
                   closeCalls, ops, delivered, arg, ret>>

\* SignatureAccepted with the length test reduced to a non-empty test
SignatureAccepted_NonEmpty(buf) == Len(buf) >= 1

\* if len(result) >= 60
SignatureAccepted(buf) == Len(buf) >= MinSigLen

\* lines 130..138: one iteration of the read loop; a long enough buffer is
\* padded and returned, the last iteration without one raises
SignRead ==
    /\ pc = "sign_poll"
    /\ LET r == ReadResult IN
       /\ reads' = Append(reads, r)
       /\ rxq' = AfterRead
       /\ IF SignatureAccepted(r.data)
          THEN /\ result' = Signature(PadSignature(r.data))
               /\ pc' = "ready"
          ELSE IF Len(reads) + 1 >= SignAttempts
          THEN /\ result' = Failure("SignatureTimeout")
               /\ pc' = "ready"
          ELSE /\ result' = result
               /\ pc' = pc
    /\ UNCHANGED <<curve, sent, op, shown, acks, signLog, closeCalls, ops,
                   delivered, arg, ret>>

\* read_bytes raises inside sign_ssh_challenge
SignReadRaise ==
    /\ pc = "sign_poll"
    /\ result' = Failure("TransportError")
    /\ pc' = "ready"
    /\ UNCHANGED <<curve, rxq, sent, reads, op, shown, acks, signLog,
                   closeCalls, ops, delivered, arg, ret>>

\* ---------------------------------------------------------------------------
\* The device
\* ---------------------------------------------------------------------------

\* the device answers the latest request sent; the report is buffered in the
\* transport until it is read, which may be during a later operation
DeviceDeliver(b) ==
    /\ pc \in {"ready", "get_public_key_poll", "sign_show", "sign_wait_ack",
             "sign_poll"}
    /\ delivered < MaxDeliver
    /\ sent # <<>>
    /\ delivered' = delivered + 1
    /\ rxq' = Append(rxq, Report(b, Len(sent)))
    /\ UNCHANGED <<curve, pc, sent, reads, op, result, shown, acks, signLog,
                   closeCalls, ops, arg, ret>>

Next ==
    \/ Enter
    \/ EnterRaise
    \/ Exit
    \/ \E label \in Labels : GetPublicKeySend(label)
    \/ GetPublicKeyRead
    \/ GetPublicKeyReadRaise
    \/ \E label \in Labels, blob \in SessionBlobs : SignSend(label, blob)
    \/ SignShow
    \/ SignAck
    \/ SignRead
    \/ SignReadRaise
    \/ \E b \in SessionBuffers : DeviceDeliver(b)

Spec == Init /\ [][Next]_vars

\* ---------------------------------------------------------------------------
\* A Client used again after its with statement
\* ---------------------------------------------------------------------------

\* Client.__enter__ called again on the same object, after __exit__: self.ok
\* is the handle made in __init__ and closed in __exit__, and __enter__ reads
\* from it as it did the first time; no method looks at whether it is closed
Reenter ==
    /\ pc = "exited"
    /\ closeCalls < MaxSessions
    /\ rxq' = EnterLoop(AfterRead, EnterEmpty)
    /\ pc' = "ready"
    /\ UNCHANGED <<curve, sent, reads, op, result, shown, acks, signLog,
                   closeCalls, ops, delivered, arg, ret>>

NextReuse == Next \/ Reenter

SpecReuse == Init /\ [][NextReuse]_vars

\* ---------------------------------------------------------------------------
\* The pure functions, each applied to inputs drawn from a bounded family
\* ---------------------------------------------------------------------------

\* the session variables of a specification that only applies a function
NoSession(p) ==
    /\ pc = p
    /\ rxq = <<>>
    /\ sent = <<>>
    /\ reads = <<>>
    /\ op = NoOp
    /\ result = NoResult
    /\ shown = <<>>
    /\ acks = 0
    /\ signLog = {}
    /\ closeCalls = 0
    /\ ops = 0
    /\ delivered = 0
    /\ ret = <<>>

sessionVars ==
    <<curve, rxq, sent, reads, op, result, shown, acks, signLog, closeCalls,
      ops, delivered>>

\* full reports: uniform ones, and uniform ones with one or two bytes changed
KeyBuffers ==
    { Poke(Poke(Fill(ReportLen, v), p, w), q, x) :
        v \in 0..MaxFill, p \in 0..(ReportLen - 1), w \in 0..(MaxFill + 1),
        q \in {PadFrom, PadTo - 1, PadTo}, x \in 0..(MaxFill + 1) }

InitKey ==
    /\ NoSession("classify")
    /\ curve \in Curves
    /\ arg \in KeyBuffers

\* lines 77..86 of get_public_key on the buffer arg
DecodeKey ==
    /\ pc = "classify"
    /\ \E label \in Labels, onCurve \in BOOLEAN :
          ret' = [class |-> Classify(arg),
                  out |-> DecodePubkey(arg, label, onCurve)]
    /\ pc' = "classified"
    /\ UNCHANGED <<sessionVars, arg>>

NextKey == DecodeKey

SpecKey == InitKey /\ [][NextKey]_vars

\* digests: 32 bytes, those at the three positions of the code and of their
\* neighbours drawn from the bytes around the cases of get_button
CodeBytes == {5, 6, 255}
DigestInputs ==
    { Poke(Poke(Poke(Fill(DigestLen, 9), 0, b1), 15, b2), 31, b3) :
        b1 \in 0..255, b2 \in CodeBytes, b3 \in {0, 10, 11} }

InitCode ==
    /\ NoSession("derive")
    /\ curve = CURVE_NIST256
    /\ arg \in DigestInputs

\* line 121 of sign_ssh_challenge on the digest arg
DeriveCode ==
    /\ pc = "derive"
    /\ ret' = ConfirmationCode(arg)
    /\ pc' = "derived"
    /\ UNCHANGED <<sessionVars, arg>>

NextCode == DeriveCode

SpecCode == InitCode /\ [][NextCode]_vars

\* field values of synthetic requests
ShortFields == {<<>>, <<MaxFill>>}
LongFields == {<<>>, <<MaxFill>>, <<0, MaxFill>>}

\* public key blobs of synthetic requests, with what parse_pubkey makes of them
KeyBlobs ==
    {[kind |-> "ed25519", blob |-> Ed25519Blob(MaxFill)],
     [kind |-> "nist256", blob |-> Nist256Blob(MaxFill)],
     [kind |-> "bad", blob |-> <<>>],
     [kind |-> "bad", blob |-> Frame(SSH_ED25519_KEY_TYPE) \o Frame(Fill(31, 0))]}

\* what is done to the encoded blob before it is parsed: nothing, one byte
\* appended, the blob cut to a proper prefix, the length of the first frame
\* raised past the end of the blob
Tampers ==
    {[how |-> "none", n |-> 0], [how |-> "append", n |-> 0],
     [how |-> "append", n |-> 255], [how |-> "inflate", n |-> 1]}
    \cup {[how |-> "cut", n |-> n] : n \in {1, 2, 40}}

Tamper(blob, t) ==
    IF t.how = "append" THEN blob \o <<t.n>>
    ELSE IF t.how = "cut" THEN SubSeq(blob, 1, Len(blob) - t.n)
    ELSE IF t.how = "inflate" THEN Poke(blob, 2, t.n)
    ELSE blob

InitBlob ==
    /\ NoSession("parse")
    /\ curve = CURVE_NIST256
    /\ \E n \in LongFields, u \in LongFields, c \in ShortFields, a \in ShortFields,
          k \in ShortFields, pk \in KeyBlobs, m1 \in {0, 50}, m2 \in {1, 255},
          t \in Tampers :
          arg = [req |-> Request(n, u, c, a, k, pk.blob), kind |-> pk.kind,
                 m1 |-> m1, m2 |-> m2, tamper |-> t.how,
                 blob |-> Tamper(EncodeRequest(Request(n, u, c, a, k, pk.blob),
                                               m1, m2), t)]

\* _parse_ssh_blob on the blob arg.blob
ParseBlob ==
    /\ pc = "parse"
    /\ ret' = parse_ssh_blob(arg.blob)
    /\ pc' = "parsed"
    /\ UNCHANGED <<sessionVars, arg>>

NextBlob == ParseBlob

SpecBlob == InitBlob /\ [][NextBlob]_vars

\* ---------------------------------------------------------------------------
\* string_to_identity
\* ---------------------------------------------------------------------------

\* characters are their ASCII codes: ':' 58, '/' 47, '@' 64

\* \w of the pattern: [a-zA-Z0-9_]
IsWord(c) == c \in (48..57) \cup (65..90) \cup (97..122) \cup {95}

Max(S) == CHOOSE x \in S : \A y \in S : y <= x
Least(S) == CHOOSE x \in S : \A y \in S : x <= y

\* s[a:]
From(s, a) == SubSeq(s, a + 1, Len(s))

\* a group that took part in the match with value v, and one that did not
Matched(v) == [some |-> TRUE, val |-> v]
Unmatched == [some |-> FALSE, val |-> <<>>]

\* (?:(?P<proto>.*)://)?  the group is tried before it is skipped and .* is
\* greedy: the index of the last "://" of s, or -1; the rest of the pattern
\* matches any remainder, so the first try is the match
ProtoEnd(s) ==
    LET I == {i \in 0..(Len(s) - 3) : SubSeq(s, i + 1, i + 3) = <<58, 47, 47>>}
    IN  IF I = {} THEN -1 ELSE Max(I)

\* (?:(?P<user>.*)@)?  the index of the last '@' of r, or -1
UserEnd(r) ==
    LET I == {i \in 0..(Len(r) - 1) : r[i + 1] = 64}
    IN  IF I = {} THEN -1 ELSE Max(I)

\* the length of the longest run of \w at the start of t
RECURSIVE WordRun(_)
WordRun(t) == IF t # <<>> /\ IsWord(t[1]) THEN 1 + WordRun(Tail(t)) ELSE 0

\* (?::(?P<port>\w*))?(?P<path>/.*)?$ matches all of t: ':' and the whole run
\* of \w after it and then the end or a path, or a path, or the end
TailMatches(t) ==
    \/ t = <<>>
    \/ t[1] = 47
    \/ /\ t[1] = 58
       /\ LET n == WordRun(Tail(t))
          IN  n + 1 = Len(t) \/ t[n + 2] = 47

\* (?P<host>.*?) is lazy: the shortest host after which the tail matches
HostLen(r) == Least({h \in 0..Len(r) : TailMatches(From(r, h))})

\* m.groupdict() of _identity_regexp.match(s)
groupdict(s) ==
    LET pe == ProtoEnd(s)
        r1 == IF pe < 0 THEN s ELSE From(s, pe + 3)
        ue == UserEnd(r1)
        r2 == IF ue < 0 THEN r1 ELSE From(r1, ue + 1)
        h == HostLen(r2)
        t == From(r2, h)
        hasPort == t # <<>> /\ t[1] = 58
        n == IF hasPort THEN WordRun(Tail(t)) ELSE 0
        t2 == IF hasPort THEN From(t, n + 1) ELSE t
    IN  [proto |-> IF pe < 0 THEN Unmatched ELSE Matched(SubSeq(s, 1, pe)),
         user |-> IF ue < 0 THEN Unmatched ELSE Matched(SubSeq(r1, 1, ue)),
         host |-> Matched(SubSeq(r2, 1, h)),
         port |-> IF hasPort THEN Matched(SubSeq(t, 2, n + 1)) ELSE Unmatched,
         path |-> IF t2 # <<>> THEN Matched(t2) ELSE Unmatched]

IdentityKeys == {"proto", "user", "host", "port", "path"}

\* string_to_identity that keeps every group that took part in the match
string_to_identity_KeepEmpty(s) ==
    LET g == groupdict(s)
    IN  [k \in {k2 \in IdentityKeys : g[k2].some} |-> g[k].val]

\* string_to_identity(s): kwargs = {k: v for k, v in result.items() if v}
string_to_identity(s) ==
    LET g == groupdict(s)
    IN  [k \in {k2 \in IdentityKeys : g[k2].some /\ g[k2].val # <<>>} |-> g[k].val]

\* identity strings: every string of up to MaxIdLen characters of 'a', '-',
\* ':', '/', '@'
IdChars == {97, 45, 58, 47, 64}
ShortIdentities == SeqsUpTo(IdChars, MaxIdLen)

\* the parts of a composed identity string; the delimiter of proto, user and
\* port may be there with an empty value
Parts(pr, hasPr, us, hasUs, ho, po, hasPo, pa) ==
    [proto |-> pr, hasProto |-> hasPr, user |-> us, hasUser |-> hasUs,
     host |-> ho, port |-> po, hasPort |-> hasPo, path |-> pa]

\* [proto://][user@]host[:port][/path]
Compose(f) ==
    (IF f.hasProto THEN f.proto \o <<58, 47, 47>> ELSE <<>>)
    \o (IF f.hasUser THEN f.user \o <<64>> ELSE <<>>)
    \o f.host
    \o (IF f.hasPort THEN <<58>> \o f.port ELSE <<>>)
    \o f.path

\* "alice@example.com:22/repo"
AliceParts ==
    Parts(<<>>, FALSE, <<97, 108, 105, 99, 101>>, TRUE,
          <<101, 120, 97, 109, 112, 108, 101, 46, 99, 111, 109>>,
          <<50, 50>>, TRUE, <<47, 114, 101, 112, 111>>)

\* composed identities: proto, user and host without delimiters, port of \w,
\* path a '/' and anything but '@' and "://"
ComposedParts ==
    {AliceParts} \cup
    { Parts(pr, hp, us, hu, ho, po, hpo, pa) :
        pr \in {<<>>, <<115, 115, 104>>}, hp \in BOOLEAN,
        us \in {<<>>, <<97>>, <<97, 45, 98>>}, hu \in BOOLEAN,
        ho \in {<<>>, <<104>>, <<104, 46, 99>>},
        po \in {<<>>, <<50, 50>>, <<97, 95>>}, hpo \in BOOLEAN,
        pa \in {<<>>, <<47>>, <<47, 114>>, <<47, 114, 47, 58, 49>>} }

NoParts == Parts(<<>>, FALSE, <<>>, FALSE, <<>>, <<>>, FALSE, <<>>)

InitIdentity ==
    /\ NoSession("identify")
    /\ curve = CURVE_NIST256
    /\ \/ \E f \in ComposedParts :
             /\ f.hasProto \/ f.proto = <<>>
             /\ f.hasUser \/ f.user = <<>>
             /\ f.hasPort \/ f.port = <<>>
             /\ arg = [s |-> Compose(f), composed |-> TRUE, parts |-> f]
       \/ \E s \in ShortIdentities :
             arg = [s |-> s, composed |-> FALSE, parts |-> NoParts]

\* string_to_identity on the string arg.s
ParseIdentity ==
    /\ pc = "identify"
    /\ ret' = string_to_identity(arg.s)
    /\ pc' = "identified"
    /\ UNCHANGED <<sessionVars, arg>>

NextIdentity == ParseIdentity

SpecIdentity == InitIdentity /\ [][NextIdentity]_vars

\* ---------------------------------------------------------------------------
\* The payloads of the two requests
\* ---------------------------------------------------------------------------

\* values of Client(curve=...): the two of formats and one that is neither
ConfiguredCurves == Curves \cup {"secp256k1"}

\* labels: every string of up to MaxLabelLen bytes of 0, 't' and 255
PayloadLabels == SeqsUpTo({0, 116, 255}, MaxLabelLen)

\* blobs: sign_ssh_challenge computes the payload of any blob that parses;
\* the payload as a function is applied to short byte strings as well
PayloadBlobs == {<<>>, <<0>>, <<2, 255>>, GoodBlob}

InitPayload ==
    /\ NoSession("shape")
    /\ curve \in ConfiguredCurves
    /\ arg \in [label : PayloadLabels, blob : PayloadBlobs]

\* lines 57..66 of get_public_key and 102..112 of sign_ssh_challenge on the
\* label and the blob of arg
ShapePayloads ==
    /\ pc = "shape"
    /\ ret' = [getkey |-> GetKeyPayload(curve, arg.label),
               sign |-> SignPayload(arg.label, arg.blob),
               digest |-> ChallengeDigest(SignPayload(arg.label, arg.blob))]
    /\ pc' = "shaped"
    /\ UNCHANGED <<sessionVars, arg>>

NextPayload == ShapePayloads

SpecPayload == InitPayload /\ [][NextPayload]_vars

\* ---------------------------------------------------------------------------
\* Properties
\* ---------------------------------------------------------------------------

\* the last operation has ended (returned or raised)
OpEnded(name) == op.name = name /\ pc \in {"ready", "exited"}

\* every read of the operation returned, and returned fewer than n bytes
AllReadsShorter(n) == \A i \in 1..Len(reads) : Len(reads[i].data) < n

\* C1: when every read of get_public_key returns fewer than 64 bytes, it issues
\* exactly 2 reads and then fails with DeviceTimeout; it returns no key.
C1_TimeoutAfterShortReads ==
    (OpEnded("get_public_key") /\ result.err # "TransportError"
        /\ AllReadsShorter(64))
    => (Len(reads) = 2 /\ result = Failure("DeviceTimeout"))

\* C2: once the scope of a Client that holds the device handle is left, by any
\* path, close() has been called.
C2_ReleasedOnEveryExit ==
    pc \in {"exited", "aborted"} => closeCalls >= 1

\* C3: after the acknowledgment, when every read of sign_ssh_challenge returns
\* fewer than 60 bytes, it issues exactly 10 reads and fails with
\* SignatureTimeout; it never reads an 11th time and returns no signature.
C3_SignTimeout ==
    op.name = "sign_ssh_challenge" =>
        /\ Len(reads) <= 10
        /\ (reads # <<>> => acks >= 1)
        /\ (AllReadsShorter(60) => result.kind # "sig")
        /\ (OpEnded("sign_ssh_challenge") /\ reads # <<>>
                /\ result.err # "TransportError" /\ AllReadsShorter(60))
            => (Len(reads) = 10 /\ result = Failure("SignatureTimeout"))

\* C3 witness: ten short reads, one of them a non-empty short report, ended in
\* SignatureTimeout
C3_Witness ==
    /\ OpEnded("sign_ssh_challenge")
    /\ Len(reads) = 10
    /\ AllReadsShorter(60)
    /\ \E i \in 1..Len(reads) : reads[i].data # <<>>
    /\ result = Failure("SignatureTimeout")

\* C4: when __enter__ has returned, the transport holds no report that was
\* buffered before the session.
C4_DrainedOnConnect ==
    pc \in {"ready", "get_public_key_poll", "sign_show", "sign_wait_ack",
            "sign_poll"}
    => \A i \in 1..Len(rxq) : rxq[i].req # 0

\* a 64-byte buffer that starts with r and is zero after it
IsZeroPadded(buf, r) ==
    /\ Len(buf) = 64
    /\ \A i \in 1..64 : buf[i] = IF i <= Len(r) THEN r[i] ELSE 0

UniformPadding(buf) == \A i \in 35..63, j \in 35..63 : buf[i] = buf[j]

\* C6: a 64-byte buffer is decoded as Ed25519 from bytes 0..31 when its bytes
\* 34..62 are all identical and as ECDSA-NIST256 from all 64 bytes otherwise;
\* one decoder is chosen, whatever bytes 32, 33, 63 and the configured curve.
C6_Classification ==
    pc = "classified" =>
        /\ Len(arg) = 64
        /\ UniformPadding(arg) =>
              /\ ret.class = [variant |-> "ed25519", key |-> SubSeq(arg, 1, 32)]
              /\ ret.out.kind = "key"
              /\ ret.out.variant = "ed25519"
              /\ ret.out.data = SubSeq(arg, 1, 32)
        /\ ~UniformPadding(arg) =>
              /\ ret.class = [variant |-> "ecdsa-nist256", key |-> arg]
              /\ ret.out.kind \in {"key", "error"}
              /\ ret.out.kind = "key" =>
                    (ret.out.variant = "ecdsa-nist256" /\ ret.out.data = arg)

\* C6 witness: a buffer that differs from an all-equal one only at byte 33 is
\* decoded as Ed25519 although the client is configured with NIST256
C6_Witness ==
    /\ pc = "classified"
    /\ curve = CURVE_NIST256
    /\ arg[34] # arg[35]
    /\ arg[64] # arg[63]
    /\ UniformPadding(arg)
    /\ ret.out.variant = "ed25519"

\* the confirmation digit of a byte, as the firmware computes it
Digit(b) == IF b < 6 THEN 1 ELSE (b % 5) + 1

\* C7: get_button maps every byte to 1..5 (0->1, 5->1, 6->2, 10->1, 11->2,
\* 255->1), and the code is the digits of digest bytes 0, 15 and 31.
C7_ConfirmationDigits ==
    /\ \A b \in 0..255 : get_button(b) \in 1..5 /\ get_button(b) = Digit(b)
    /\ get_button(0) = 1 /\ get_button(5) = 1 /\ get_button(6) = 2
    /\ get_button(10) = 1 /\ get_button(11) = 2 /\ get_button(255) = 1
    /\ pc = "derived" =>
          /\ Len(arg) = 32
          /\ ret = <<Digit(arg[1]), Digit(arg[16]), Digit(arg[32])>>

\* C7 witness: the code of a digest whose bytes 0, 15, 31 are 11, 6, 10
C7_Witness ==
    /\ pc = "derived"
    /\ arg[1] = 11 /\ arg[16] = 6 /\ arg[32] = 10
    /\ ret = <<2, 2, 1>>

\* the payload and the code as functions of the label and the blob alone
PayloadOf(label, blob) == blob \o Sha256(label)
CodeOf(label, blob) ==
    LET d == Sha256(PayloadOf(label, blob))
    IN  <<Digit(d[1]), Digit(d[16]), Digit(d[32])>>

\* C8: the payload sent and the code shown by sign_ssh_challenge depend on the
\* label and the blob only: when the code has been shown, it and the payload
\* sent are CodeOf and PayloadOf of the label and the blob, and every run with
\* the same label and blob has sent the same payload and shown the same code.
C8_CodeIsPure ==
    /\ \A e1 \in signLog, e2 \in signLog :
          (e1.label = e2.label /\ e1.blob = e2.blob)
          => (e1.payload = e2.payload /\ e1.code = e2.code)
    /\ Len(shown) <= Len(sent)
    /\ pc = "sign_wait_ack" =>
          /\ shown # <<>>
          /\ shown[Len(shown)] = CodeOf(op.label, op.blob)
          /\ sent[Len(sent)].payload = PayloadOf(op.label, op.blob)
          /\ [label |-> op.label, blob |-> op.blob,
              payload |-> sent[Len(sent)].payload,
              code |-> shown[Len(shown)]] \in signLog

\* C8 witness: two sign requests with the same label and blob in one session,
\* the second after the first one's reads, showed the same code
C8_Witness ==
    /\ OpEnded("sign_ssh_challenge")
    /\ Len(shown) = 2
    /\ shown[1] = shown[2]
    /\ Len(sent) = 2
    /\ sent[1] = sent[2]
    /\ Cardinality(signLog) = 1
    /\ reads # <<>>

\* C9: decoding fails, and returns no field, when a frame's declared length
\* exceeds the bytes left (the blob is cut short, or a length is raised past
\* the end) and when a byte follows the public key frame.
C9_ExactConsumption ==
    (pc = "parsed" /\ arg.tamper \in {"append", "cut", "inflate"})
    => (~ret.ok /\ ret = BlobFailure(ret.err)
        /\ (arg.kind # "bad" => ret.err = "MalformedBlob"))

\* C9 witness: a well-formed blob with one byte appended was refused
C9_Witness ==
    /\ pc = "parsed"
    /\ arg.tamper = "append"
    /\ arg.kind = "ed25519"
    /\ arg.req.nonce # <<>>
    /\ ~ret.ok

\* C10 as stated: decoding the encoding of any request returns every field,
\* the public key blob included, as it was.
C10_RoundTripAllFields ==
    (pc = "parsed" /\ arg.tamper = "none")
    => /\ ret.ok
       /\ ret.nonce = arg.req.nonce
       /\ ret.user = arg.req.user
       /\ ret.conn = arg.req.conn
       /\ ret.auth = arg.req.auth
       /\ ret.key_type = arg.req.key_type
       /\ ret.public_key = arg.req.public_key

\* the key material inside the public key blobs of the synthetic requests
KeyMaterial(kind) ==
    IF kind = "ed25519"
    THEN [type |-> SSH_ED25519_KEY_TYPE, key |-> Fill(32, MaxFill)]
    ELSE [type |-> SSH_NIST256_KEY_TYPE, key |-> Fill(64, MaxFill)]

\* C10 amended: when the public key blob is a well-formed Ed25519 or NIST256
\* key, decoding the encoding returns nonce, user, conn, auth and key_type as
\* they were and the public key in parsed form; otherwise decoding fails.
C10_RoundTrip ==
    (pc = "parsed" /\ arg.tamper = "none")
    => IF arg.kind = "bad" THEN ~ret.ok
       ELSE /\ ret.ok
            /\ ret.nonce = arg.req.nonce
            /\ ret.user = arg.req.user
            /\ ret.conn = arg.req.conn
            /\ ret.auth = arg.req.auth
            /\ ret.key_type = arg.req.key_type
            /\ ret.public_key.type = KeyMaterial(arg.kind).type
            /\ ret.public_key.key = KeyMaterial(arg.kind).key

\* C10 witness: a request with distinct non-empty fields and both reserved
\* bytes non-zero was decoded
C10_Witness ==
    /\ pc = "parsed"
    /\ arg.tamper = "none"
    /\ arg.kind = "nist256"
    /\ Len(arg.req.nonce) = 2 /\ Len(arg.req.user) = 1 /\ arg.req.conn = <<>>
    /\ arg.req.auth # <<>>
    /\ arg.m1 = 50 /\ arg.m2 = 255
    /\ ret.ok
    /\ ret.nonce = arg.req.nonce


\* the fields of the parts f that have a non-empty value
PresentParts(f) ==
    LET v == [proto |-> f.proto, user |-> f.user, host |-> f.host,
              port |-> f.port, path |-> f.path]
    IN  [k \in {k2 \in IdentityKeys : v[k2] # <<>>} |-> v[k]]

\* the parts that the match of s found
MatchedParts(s) ==
    LET g == groupdict(s)
    IN  Parts(g.proto.val, g.proto.some, g.user.val, g.user.some, g.host.val,
              g.port.val, g.port.some, g.path.val)

\* C11: the parsed identity has only fields among proto, user, host, port and
\* path and none of them is empty; the identity of a string composed as
\* [proto://][user@]host[:port][/path] has exactly the parts that are not
\* empty, with their values; and the fields found in any string are the
\* non-empty parts of a decomposition of that very string
C11_ExactlyPresentFields ==
    pc = "identified" =>
        /\ DOMAIN ret \subseteq IdentityKeys
        /\ \A k \in DOMAIN ret : ret[k] # <<>>
        /\ arg.composed => ret = PresentParts(arg.parts)
        /\ ~arg.composed =>
              /\ Compose(MatchedParts(arg.s)) = arg.s
              /\ ret = PresentParts(MatchedParts(arg.s))

\* "alice@example.com:22/repo" parsed to user, host, port and path, no proto
C11_Witness ==
    /\ pc = "identified"
    /\ arg.composed /\ arg.parts = AliceParts
    /\ DOMAIN ret = {"user", "host", "port", "path"}
    /\ ret.port = <<50, 50>>


\* the sign payloads sent in the session so far
SignSends == Cardinality({i \in DOMAIN sent : sent[i].msg = "OKSIGNCHALLENGE"})

\* sign_ssh_challenge is the operation in progress or the last one ended
InSign == op.name = "sign_ssh_challenge"

\* the operation ended at line 91, its blob not parsed
BlobRejected ==
    /\ pc \in {"ready", "exited"}
    /\ result.kind = "error"
    /\ result.err \in {"MalformedBlob", "UnsupportedKeyEncoding"}

\* the order of an execution of sign_ssh_challenge in the set of executions
\* scope: one send, then the code, then the acknowledgment, then the reads and
\* the end. Sends, codes and acknowledgments are counted over the session, so
\* that each execution adds exactly one of each, in that order.
SignOrdering(scope) ==
    /\ acks <= Len(shown)
    /\ Len(shown) <= SignSends
    /\ SignSends <= acks + 1
    /\ scope =>
          /\ SignSends >= 1
          /\ sent[Len(sent)].msg = "OKSIGNCHALLENGE"
          /\ pc = "sign_show" => Len(shown) = SignSends - 1
          /\ pc # "sign_show" => Len(shown) = SignSends
          /\ pc \in {"sign_show", "sign_wait_ack"} =>
                /\ acks = SignSends - 1
                /\ reads = <<>>
          /\ reads # <<>> => acks = SignSends
          /\ pc \in {"ready", "exited"} => acks = SignSends

\* C12 as stated: in every execution of sign_ssh_challenge the payload is
\* sent exactly once, the code is shown only after the send, no read is
\* issued before the acknowledgment, and the operation ends only after the
\* acknowledgment.
C12_OrderingEveryExecution == SignOrdering(InSign)

\* C12: in every execution of sign_ssh_challenge whose blob is parsed the
\* payload is sent exactly once, the code is shown only after the send, no
\* read is issued before the acknowledgment, and the operation returns a
\* signature or fails only after the acknowledgment; an execution whose blob
\* is not parsed ends before the send.
C12_Ordering == SignOrdering(InSign /\ ~BlobRejected)

\* C12 witness: a second sign request of the session returned a signature,
\* after its own send, code and acknowledgment
C12_Witness ==
    /\ OpEnded("sign_ssh_challenge")
    /\ result.kind = "sig"
    /\ SignSends = 2 /\ Len(shown) = 2 /\ acks = 2
    /\ reads # <<>>


\* a step that starts sign_ssh_challenge on a blob that does not parse
RejectedSignStep ==
    /\ ops' = ops + 1
    /\ op'.name = "sign_ssh_challenge"
    /\ ~parse_ssh_blob(op'.blob).ok

\* C13: a call of sign_ssh_challenge on a blob that does not parse ends in
\* that very step with the failure of the parser, is not tried again, and
\* leaves alone the messages sent, the codes shown, the acknowledgments
\* received and the transport: nothing is sent, shown, awaited or read.
C13_MalformedBlobNoEffect ==
    [][RejectedSignStep =>
          /\ result' = Failure(parse_ssh_blob(op'.blob).err)
          /\ pc' = "ready"
          /\ reads' = <<>>
          /\ UNCHANGED <<sent, shown, acks, signLog, rxq, delivered>>]_vars

\* C13 witness: sign_ssh_challenge ended on a blob with a byte after its last
\* frame, with nothing sent, shown, acknowledged or read
C13_Witness ==
    /\ OpEnded("sign_ssh_challenge")
    /\ ~parse_ssh_blob(op.blob).ok
    /\ result = Failure("MalformedBlob")
    /\ sent = <<>> /\ shown = <<>> /\ acks = 0 /\ reads = <<>>


\* a response that ends the read loop of the operation in progress
Qualifies(buf) ==
    IF op.name = "get_public_key" THEN Len(buf) = ReportLen
    ELSE SignatureAccepted(buf)

\* C14: get_public_key reads at most 2 times and sign_ssh_challenge at most 10
\* times; no read follows a qualifying response (64 bytes for get_public_key,
\* at least 60 for sign_ssh_challenge); and a key or a signature that is
\* returned is derived from the first qualifying response, which is the last
\* read: a shorter response is never what the result is made of.
C14_FirstQualifyingResponse ==
    /\ op.name = "get_public_key" => Len(reads) <= PubkeyAttempts
    /\ op.name = "sign_ssh_challenge" => Len(reads) <= SignAttempts
    /\ \A i \in 1..(Len(reads) - 1) : ~Qualifies(reads[i].data)
    /\ (OpEnded(op.name) /\ result.kind \in {"key", "sig"}) =>
          /\ reads # <<>>
          /\ Qualifies(reads[Len(reads)].data)
          /\ result.kind = "sig" =>
                result = Signature(PadSignature(reads[Len(reads)].data))
          /\ result.kind = "key" =>
                \E onCurve \in BOOLEAN :
                    result = DecodePubkey(reads[Len(reads)].data, op.label, onCurve)


\* C15: the get-key payload is 33 bytes, the indicator 2 exactly when the
\* configured curve is NIST256 and 1 otherwise, then the 32 bytes of the
\* SHA-256 of the label; the sign payload is the blob and then those 32 bytes,
\* nothing in front, len(blob) + 32 bytes in all; the digest of the sign
\* payload is 32 bytes.
C15_PayloadShapes ==
    pc = "shaped" =>
        /\ Len(ret.getkey) = DigestLen + 1
        /\ ret.getkey[1] \in {1, 2}
        /\ ret.getkey[1] = 2 <=> curve = CURVE_NIST256
        /\ SubSeq(ret.getkey, 2, DigestLen + 1) = Sha256(arg.label)
        /\ ret.sign = arg.blob \o Sha256(arg.label)
        /\ Len(ret.sign) = Len(arg.blob) + DigestLen
        /\ ret.digest = Sha256(ret.sign)
        /\ Len(ret.digest) = DigestLen

\* C15 witness: the payloads of a label and a blob that are not empty, under
\* a curve that is neither of the two of formats
C15_Witness ==
    /\ pc = "shaped"
    /\ curve \notin Curves
    /\ arg.label # <<>> /\ arg.blob = GoodBlob
    /\ ret.getkey[1] = 1
    /\ Len(ret.sign) = Len(GoodBlob) + DigestLen


\* a step that sends a message, records a read of an operation, or closes
IssuesSendOrRead == sent' # sent \/ (reads' # reads /\ reads' # <<>>)
IssuesClose == closeCalls' # closeCalls

\* C16: a message is sent or a read issued only in a session that __enter__
\* has opened and __exit__ has not closed; once close() has been called
\* nothing more is sent, read or closed on the transport; and an operation
\* that has ended leaves the session ready for the next one.
C16_SessionStateMachine ==
    [][/\ (IssuesSendOrRead \/ IssuesClose) => closeCalls = 0
       /\ IssuesSendOrRead =>
             pc \in {"ready", "get_public_key_poll", "sign_poll"}
       /\ (pc \in {"get_public_key_poll", "sign_poll"} /\ pc' # pc) =>
             pc' = "ready"]_vars


\* the buffer that the result of the operation was made of: the last one read
ResultBuffer == reads[Len(reads)]

\* C17: a buffer that get_public_key decodes into a key, or that
\* sign_ssh_challenge returns as a signature, is a report that the device
\* sent in answer to the request of that operation: not one buffered before
\* the session, and not the answer to an earlier request of the session.
C17_ResponseFreshness ==
    (pc \in {"ready", "exited"} /\ result.kind \in {"key", "sig"}) =>
        /\ reads # <<>>
        /\ ResultBuffer.req = Len(sent)

====
